---- MODULE Spec2Model ----
(***************************************************************************)
(* The synthetic analytics generator of db.py: three passes (GSC           *)
(* performance rows, YouTube analytics rows, GA session rows), each        *)
(* followed by one to_csv write.                                           *)
(*                                                                         *)
(* Representation.  A table (gsc_data, yt_data, ga_sessions_data) is kept  *)
(* as the keys or the count of the rows appended so far plus the row       *)
(* appended last: rows never read one another, so a property of every row  *)
(* is an invariant of the last row.  twin is the row of a second run of   *)
(* the script that is given the same seeds and advances in step with the   *)
(* first (TwoRunSpec); elsewhere it stays NoRow.  Real-valued draws are rationals on a  *)
(* grid (np.random.normal(mu, sigma) = mu + z*sigma for an integer z, in   *)
(* the unit written at each call; random.random() in hundredths), and the  *)
(* products the code truncates with int() are computed exactly.            *)
(***************************************************************************)
EXTENDS Integers, Sequences, FiniteSets, TLC

VARIABLES
  pc,                  \* where the script is
  day, qi, di, vi, si, \* the loop variables: day, query, device, video, session
  num_sessions_today,
  gsc_keys,            \* (partition_date, query, device) of gsc_data, in order
  yt_keys,             \* (partition_date, external_video_id) of yt_data
  ga_count,            \* len(ga_sessions_data)
  row,                 \* the row the last step appended, NoRow if none
  files,               \* the state of each output file
  write_log,           \* the files to_csv was called for, in order
  twin,                \* the row a second run appended in the same step
  WEBSITE_METADATA,    \* app.py: the content store
  request,             \* app.py: the request handled last
  response,            \* app.py: the answer to it
  last_sent,           \* app.py: per field, the value an accepted request
                       \* carried last (the default if none did)
  bq_client,           \* agent.py: the BigQuery client of the module
  call,                \* agent.py: the tool call made last
  result               \* agent.py: how that call ended

dbVars == <<pc, day, qi, di, vi, si, num_sessions_today,
          gsc_keys, yt_keys, ga_count, row, files, write_log, twin>>

appVars == <<WEBSITE_METADATA, request, response, last_sent>>

agentVars == <<bq_client, call, result>>

vars == <<dbVars, appVars, agentVars>>

\* ---------------------------------------------------------------- bounds

\* NUM_DAYS of db.py is 90; the passes are explored for this many days.
NUM_DAYS == 2

\* np.random.normal has unbounded support: draws reach mu +- ZTail*sigma.
ZTail == 40

\* The session generator alone (SessionSpec) is explored for this many
\* sessions.
FirstSessions == 1

\* --------------------------------------------------------- configuration

START_DATE == <<2025, 1, 1>>
HOSPITAL_HOSTNAME == "www.apollohospitals.com"
PRIMARY_CITY == "Chennai"
PRIMARY_REGION == "Tamil Nadu"
PRIMARY_COUNTRY_CODE == "IN"
PRIMARY_COUNTRY_NAME == "India"

\* A dict iterates in insertion order: the catalog is the sequence of its
\* items.  A query is the sequence of its characters, so that the substring
\* test of the generator is a test on the text.
GSC_QUERIES ==
  <<
    [query |-> <<"k","n","e","e"," ","p","a","i","n">>,
     page |-> "/blog/knee-pain-causes-and-treatments/"],
    [query |-> <<"b","e","s","t"," ","o","r","t","h","o","p","e","d","i","c"," ","s",
       "u","r","g","e","o","n"," ","i","n"," ","c","h","e","n","n","a","i">>,
     page |-> "/chennai/centres-of-excellence/orthopedics/"],
    [query |-> <<"h","i","p"," ","r","e","p","l","a","c","e","m","e","n","t"," ","o",
       "p","t","i","o","n","s">>,
     page |-> "/chennai/centres-of-excellence/orthopedics/hip-replacement"],
    [query |-> <<"s","p","o","r","t","s"," ","i","n","j","u","r","y"," ","c","l","i",
       "n","i","c"," ","c","h","e","n","n","a","i">>,
     page |-> "/chennai/centres-of-excellence/orthopedics/sports-medicine"],
    [query |-> <<"s","h","o","u","l","d","e","r"," ","s","u","r","g","e","r","y"," ",
       "r","e","c","o","v","e","r","y"," ","t","i","m","e">>,
     page |-> "/blog/shoulder-surgery-recovery-guide/"],
    [query |-> <<"a","p","o","l","l","o"," ","c","h","e","n","n","a","i"," ","a","p",
       "p","o","i","n","t","m","e","n","t">>,
     page |-> "/chennai/patients/appointments"],
    [query |-> <<"b","e","s","t"," ","c","a","r","d","i","o","l","o","g","i","s","t",
       " ","i","n"," ","c","h","e","n","n","a","i">>,
     page |-> "/chennai/centres-of-excellence/cardiology/"],
    [query |-> <<"h","e","a","r","t"," ","a","t","t","a","c","k"," ","s","y","m","p",
       "t","o","m","s">>,
     page |-> "/blog/understanding-heart-attack-symptoms/"],
    [query |-> <<"m","a","t","e","r","n","i","t","y"," ","p","a","c","k","a","g","e",
       "s"," ","c","h","e","n","n","a","i">>,
     page |-> "/chennai/centres-of-excellence/maternity/packages"]
  >>

BEST == <<"b","e","s","t">>

SHOULDER_QUERY ==
  <<"s","h","o","u","l","d","e","r"," ","s","u","r","g","e","r","y"," ",
    "r","e","c","o","v","e","r","y"," ","t","i","m","e">>

GSC_DEVICES == <<"MOBILE", "DESKTOP">>

YT_VIDEOS ==
  <<
    [video_id |-> "yt_apollo_ortho_team_01",
     title |-> "Meet Our Orthopedic Team - Apollo Chennai",
     duration_sec |-> 180, avg_view_sec |-> 30],
    [video_id |-> "yt_apollo_cardio_proc_02",
     title |-> "What to Expect During an Angioplasty",
     duration_sec |-> 240, avg_view_sec |-> 90],
    [video_id |-> "yt_apollo_maternity_tour_03",
     title |-> "Virtual Tour of Apollo Maternity Ward Chennai",
     duration_sec |-> 210, avg_view_sec |-> 120]
  >>

PAGE_MAP ==
  <<
    [page_path |-> "/", page_title |-> "Homepage | Apollo Hospitals"],
    [page_path |-> "/chennai/centres-of-excellence/orthopedics/",
     page_title |-> "Best Orthopedic Hospital in Chennai | Apollo"],
    [page_path |-> "/blog/knee-pain-causes-and-treatments/",
     page_title |-> "Knee Pain Causes & Treatments"],
    [page_path |-> "/doctors/chennai/dr-aravind-kumar",
     page_title |-> "Dr. Aravind Kumar - Orthopedic Surgeon"],
    [page_path |-> "/chennai/patients/appointments",
     page_title |-> "Book an Appointment | Apollo Chennai"],
    [page_path |-> "/chennai/centres-of-excellence/cardiology/",
     page_title |-> "Best Cardiology Hospital in Chennai | Apollo"],
    [page_path |-> "/blog/understanding-heart-attack-symptoms/",
     page_title |-> "Understanding Heart Attack Symptoms"],
    [page_path |-> "/chennai/centres-of-excellence/maternity/packages",
     page_title |-> "Maternity Packages at Apollo Chennai"]
  >>

\* None of Python.
None == [none |-> TRUE]

\* ------------------------------------------------------ library functions

\* needle in hay, on strings.
Contains(needle, hay) ==
  \E i \in 0..(Len(hay) - Len(needle)) :
    \A j \in 1..Len(needle) : hay[i + j] = needle[j]

\* int() of the quotient num/den (den > 0): truncation toward zero.
IntTrunc(num, den) ==
  IF num >= 0 THEN num \div den ELSE -((-num) \div den)

Max(a, b) == IF a >= b THEN a ELSE b

IsLeap(y) == (y % 4 = 0 /\ y % 100 # 0) \/ y % 400 = 0

DaysInMonth(y, m) ==
  IF m = 2 THEN (IF IsLeap(y) THEN 29 ELSE 28)
  ELSE IF m \in {4, 6, 9, 11} THEN 30 ELSE 31

NextDate(d) ==
  IF d[3] < DaysInMonth(d[1], d[2]) THEN <<d[1], d[2], d[3] + 1>>
  ELSE IF d[2] < 12 THEN <<d[1], d[2] + 1, 1>>
  ELSE <<d[1] + 1, 1, 1>>

\* date + timedelta(days=n), n >= 0.
RECURSIVE AddDays(_, _)
AddDays(d, n) == IF n = 0 THEN d ELSE AddDays(NextDate(d), n - 1)

\* strftime('%Y-%m-%d'): the fields of the date, year first.
StrfDate(d) == <<d[1], d[2], d[3]>>

RECURSIVE DaysFrom(_, _)
\* (b - a).days for dates a <= b.
DaysFrom(a, b) == IF a = b THEN 0 ELSE 1 + DaysFrom(NextDate(a), b)

\* A datetime is <<date, second of the day>>.
\* (b - a).total_seconds() for datetimes a <= b.
TotalSeconds(a, b) == DaysFrom(a[1], b[1]) * 86400 + b[2] - a[2]

\* datetime + timedelta(seconds=s), s >= 0.
AddSeconds(dt, s) ==
  LET t == dt[2] + s
  IN  <<AddDays(dt[1], t \div 86400), t % 86400>>

\* datetime.isoformat(): YYYY-MM-DDTHH:MM:SS as its six fields.
IsoFormat(dt) ==
  <<dt[1][1], dt[1][2], dt[1][3],
    dt[2] \div 3600, (dt[2] % 3600) \div 60, dt[2] % 60>>

\* ------------------------------------------------------------ draw sets

\* The z of a normal draw mu + z*sigma.
ZDraws == {-3, 0, ZTail}

\* np.random.normal(mu, sigma), mu and sigma in the unit of the call site.
Normal(mu, sigma) == {mu + z * sigma : z \in ZDraws}

\* random.randint(lo, hi): both ends inclusive.
RandInt(lo, hi) == {lo, (lo + hi) \div 2, hi}

\* random.randint(lo, hi) where only the ends are explored.
RandEnds(lo, hi) == {lo, hi}

\* random.choice(seq).
Choice(seq) == {seq[1], seq[Len(seq)]}

\* current_date = START_DATE + timedelta(days=day), with the offset left out.
CurrentDateStuck(d) == START_DATE

\* current_date = START_DATE + timedelta(days=day)
CurrentDate(d) == AddDays(START_DATE, d)

\* ------------------------------------------------------------- the state

\* WEBSITE_METADATA of app.py as the module is loaded.
DEFAULT_METADATA ==
  [title |-> "Default Title | Apollo Hospitals",
   description |-> "This is the default description.",
   page_h1 |-> "Best Orthopedics Hospital in Chennai",
   page_paragraph |->
     "The Department of Orthopaedics at Apollo Hospitals, Chennai is renowned for delivering advanced Orthopaedics care."]

NoRequest == [route |-> "none"]

\* No tool was called yet.
NoCall == [fn |-> "none"]

NoResult == [raised |-> FALSE, sent |-> <<>>]

NoResponse == [code |-> 0]

NoRow == [table |-> "none"]

\* The three output files.
GSC_CSV == "mock_gsc_performance.csv"
YT_CSV == "mock_youtube_analytics.csv"
GA_CSV == "mock_ga_sessions.csv"
CsvFiles == {GSC_CSV, YT_CSV, GA_CSV}

Init ==
  /\ pc = "gsc"
  /\ day = 0
  /\ qi = 1
  /\ di = 1
  /\ vi = 1
  /\ num_sessions_today = 0
  /\ si = 0
  /\ gsc_keys = << >>
  /\ yt_keys = << >>
  /\ ga_count = 0
  /\ row = NoRow
  /\ files = [f \in CsvFiles |-> "absent"]
  /\ write_log = << >>
  /\ twin = NoRow
  /\ WEBSITE_METADATA = DEFAULT_METADATA
  /\ request = NoRequest
  /\ response = NoResponse
  /\ last_sent = DEFAULT_METADATA
  /\ bq_client = "unset"
  /\ call = NoCall
  /\ result = NoResult

\* to_csv(name) called a second time right after the first.
ToCsvTwice(name, next_pc) ==
  /\ write_log' = write_log \o <<name, name>>
  /\ \/ /\ files' = [files EXCEPT ![name] = "complete"]
        /\ pc' = next_pc
     \/ /\ \E left \in {"absent", "partial"} :
             files' = [files EXCEPT ![name] = left]
        /\ pc' = "failed"

\* to_csv(name) of a table: the file is written whole, or the call raises
\* and the script ends with the file missing or cut short.
ToCsv(name, next_pc) ==
  /\ write_log' = Append(write_log, name)
  /\ \/ /\ files' = [files EXCEPT ![name] = "complete"]
        /\ pc' = next_pc
     \/ /\ \E left \in {"absent", "partial"} :
             files' = [files EXCEPT ![name] = left]
        /\ pc' = "failed"

\* ------------------------------------------------- 1. GSC performance data

\* The two ranges of the impressions taken the wrong way round.
ImpressionsDrawsSwapped(query) ==
  IF Contains(BEST, query) THEN RandInt(50, 8000) ELSE RandInt(500, 10000)

ImpressionsDraws(query) ==
  IF ~Contains(BEST, query) THEN RandInt(50, 8000) ELSE RandInt(500, 10000)

\* ctr in thousandths.
CtrDraws(query) ==
  IF query = SHOULDER_QUERY THEN Normal(5, 1) ELSE Normal(80, 30)

\* avg_position in tenths.
AvgPositionDraws(query) ==
  IF Contains(BEST, query) THEN Normal(35, 15) ELSE Normal(80, 40)

Clicks(impressions, ctr) == Max(0, IntTrunc(impressions * ctr, 1000))

GscRow(current_date, query, page, device, impressions, ctr, avg_position) ==
  [table |-> "gsc",
   partition_date |-> StrfDate(current_date),
   query |-> query,
   page_url |-> "https://" \o HOSPITAL_HOSTNAME \o page,
   country |-> PRIMARY_COUNTRY_CODE,
   device |-> device,
   clicks |-> Clicks(impressions, ctr),
   impressions |-> impressions,
   sum_position |-> IntTrunc(avg_position * impressions, 10)]

GscKey(r) == <<r.partition_date, r.query, r.device>>

\* One pass of the body of the innermost loop, and the step of the three
\* nested loops to the next (day, query, device).
GSCRow(tw) ==
  /\ pc = "gsc"
  /\ UNCHANGED <<appVars, agentVars>>
  /\ LET current_date == CurrentDate(day)
         query == GSC_QUERIES[qi].query
         page == GSC_QUERIES[qi].page
         device == GSC_DEVICES[di]
     IN  \E impressions \in ImpressionsDraws(query),
            ctr \in CtrDraws(query),
            avg_position \in AvgPositionDraws(query) :
           LET r == GscRow(current_date, query, page, device,
                           impressions, ctr, avg_position)
           IN  /\ row' = r
               /\ gsc_keys' = Append(gsc_keys, GscKey(r))
               /\ twin' = IF tw THEN r ELSE twin
  /\ IF di < Len(GSC_DEVICES)
       THEN /\ di' = di + 1
            /\ UNCHANGED <<pc, day, qi>>
       ELSE IF qi < Len(GSC_QUERIES)
         THEN /\ di' = 1
              /\ qi' = qi + 1
              /\ UNCHANGED <<pc, day>>
         ELSE IF day + 1 < NUM_DAYS
           THEN /\ di' = 1
                /\ qi' = 1
                /\ day' = day + 1
                /\ UNCHANGED pc
           ELSE /\ pc' = "gsc_write"
                /\ UNCHANGED <<day, qi, di>>
  /\ UNCHANGED <<vi, si, num_sessions_today, yt_keys, ga_count, files,
                 write_log>>

\* gsc_df.to_csv(...), then the YouTube pass starts at day 0.
WriteGSC ==
  /\ pc = "gsc_write"
  /\ UNCHANGED <<appVars, agentVars>>
  /\ ToCsv(GSC_CSV, "yt")
  /\ day' = IF pc' = "failed" THEN day ELSE 0
  /\ row' = NoRow
  /\ twin' = NoRow
  /\ UNCHANGED <<qi, di, vi, si, num_sessions_today,
                 gsc_keys, yt_keys, ga_count>>

\* ------------------------------------------------ 2. YouTube analytics data

AGE_GROUPS == <<"25-34", "35-44", "45-54", "55-64">>
GENDERS == <<"MALE", "FEMALE">>
YT_DEVICE_TYPES == <<"MOBILE", "DESKTOP", "TABLET">>
TRAFFIC_SOURCE_TYPES == <<"YT_SEARCH", "YT_RELATED", "SUBSCRIBER", "EXT_URL">>

\* The k-th value of a list, wrapping around.
Pick(seq, k) == seq[((k - 1) % Len(seq)) + 1]

\* The draws of one row.  The four random.choice draws are explored together
\* (the k-th value of each list), and so are the four rates (the same z for
\* each, in ten-thousandths): no field of the row reads two of them.
YtDraws ==
  {[views |-> views,
    age_group |-> Pick(AGE_GROUPS, k),
    gender |-> Pick(GENDERS, k),
    device_type |-> Pick(YT_DEVICE_TYPES, k),
    traffic_source_type |-> Pick(TRAFFIC_SOURCE_TYPES, k),
    likes_rate |-> 200 + z * 50,
    shares_rate |-> 50 + z * 20,
    comments_rate |-> 20 + z * 10,
    subscribers_rate |-> 10 + z * 5] :
     views \in RandInt(50, 1500), k \in 1..4, z \in ZDraws}

WatchTimeMsec(views, video_meta) == views * video_meta.avg_view_sec * 1000

\* The potential watch time left in seconds.
PotentialWatchTimeSec(views, video_meta) == views * video_meta.duration_sec

PotentialWatchTimeMsec(views, video_meta) ==
  views * video_meta.duration_sec * 1000

YtRow(current_date, video_meta, d) ==
  [table |-> "yt",
   partition_date |-> StrfDate(current_date),
   external_video_id |-> video_meta.video_id,
   video_title |-> video_meta.title,
   country_code |-> PRIMARY_COUNTRY_CODE,
   age_group |-> d.age_group,
   gender |-> d.gender,
   device_type |-> d.device_type,
   traffic_source_type |-> d.traffic_source_type,
   views |-> d.views,
   watch_time_msec |-> WatchTimeMsec(d.views, video_meta),
   potential_watch_time_msec |-> PotentialWatchTimeMsec(d.views, video_meta),
   likes_added |-> IntTrunc(d.views * d.likes_rate, 10000),
   shares |-> IntTrunc(d.views * d.shares_rate, 10000),
   comments_added |-> IntTrunc(d.views * d.comments_rate, 10000),
   subscribers_gained |-> IntTrunc(d.views * d.subscribers_rate, 10000)]

YtKey(r) == <<r.partition_date, r.external_video_id>>

YTRow(tw) ==
  /\ pc = "yt"
  /\ UNCHANGED <<appVars, agentVars>>
  /\ \E d \in YtDraws :
       LET r == YtRow(CurrentDate(day), YT_VIDEOS[vi], d)
       IN  /\ row' = r
           /\ yt_keys' = Append(yt_keys, YtKey(r))
           /\ twin' = IF tw THEN r ELSE twin
  /\ IF vi < Len(YT_VIDEOS)
       THEN /\ vi' = vi + 1
            /\ UNCHANGED <<pc, day>>
       ELSE IF day + 1 < NUM_DAYS
         THEN /\ vi' = 1
              /\ day' = day + 1
              /\ UNCHANGED pc
         ELSE /\ pc' = "yt_write"
              /\ UNCHANGED <<day, vi>>
  /\ UNCHANGED <<qi, di, si, num_sessions_today, gsc_keys, ga_count, files,
                 write_log>>

\* yt_df.to_csv(...), then the GA pass starts at day 0.
WriteYT ==
  /\ pc = "yt_write"
  /\ UNCHANGED <<appVars, agentVars>>
  /\ ToCsv(YT_CSV, "ga_day")
  /\ day' = IF pc' = "failed" THEN day ELSE 0
  /\ row' = NoRow
  /\ twin' = NoRow
  /\ UNCHANGED <<qi, di, vi, si, num_sessions_today,
                 gsc_keys, yt_keys, ga_count>>

\* --------------------------------------------------- 3. GA sessions data

REFERRERS == <<"youtube.com", "facebook.com">>
DEVICE_CATEGORIES == <<"mobile", "desktop", "tablet">>
BROWSERS == <<"Chrome", "Safari", "Firefox", "Edge">>
OPERATING_SYSTEMS == <<"Android", "iOS", "Windows", "MacOS">>
CITIES == <<PRIMARY_CITY, "Coimbatore", "Madurai">>

\* list(PAGE_MAP.keys())
PagePaths == [i \in 1..Len(PAGE_MAP) |-> PAGE_MAP[i].page_path]

\* PAGE_MAP[page_path]
PageTitle(page_path) ==
  PAGE_MAP[CHOOSE i \in 1..Len(PAGE_MAP) :
             PAGE_MAP[i].page_path = page_path].page_title

\* source, medium of the traffic source roll (in hundredths).
TrafficSource(traffic_source_roll, referrer) ==
  IF traffic_source_roll < 60
    THEN [source |-> "google", medium |-> "organic", campaign |-> "(not set)"]
  ELSE IF traffic_source_roll < 80
    THEN [source |-> "(direct)", medium |-> "(none)", campaign |-> "(not set)"]
  ELSE IF traffic_source_roll < 90
    THEN [source |-> referrer, medium |-> "referral", campaign |-> "(not set)"]
  ELSE [source |-> "google", medium |-> "cpc", campaign |-> "(not set)"]

PageHit(hit_number, hit_time, page_path) ==
  [hit_number |-> hit_number,
   hit_time |-> IsoFormat(hit_time),
   type |-> "PAGE",
   page |-> [page_path |-> page_path,
             page_title |-> PageTitle(page_path),
             hostname |-> HOSPITAL_HOSTNAME],
   event_info |-> None]

\* The event hit carrying a page record as well.
EventHitWithPage(hit_number, hit_time) ==
  [hit_number |-> hit_number,
   hit_time |-> IsoFormat(hit_time),
   type |-> "EVENT",
   page |-> [page_path |-> PagePaths[1],
             page_title |-> PageTitle(PagePaths[1]),
             hostname |-> HOSPITAL_HOSTNAME],
   event_info |-> [event_category |-> "Conversion",
                   event_action |-> "Request Appointment",
                   event_label |-> "Ortho Page"]]

EventHit(hit_number, hit_time) ==
  [hit_number |-> hit_number,
   hit_time |-> IsoFormat(hit_time),
   type |-> "EVENT",
   page |-> None,
   event_info |-> [event_category |-> "Conversion",
                   event_action |-> "Request Appointment",
                   event_label |-> "Ortho Page"]]

\* The journey so far: the hits and last_hit_time.
RECURSIVE AdditionalHitsStaleTime(_, _, _)
\* The additional hits with last_hit_time never moved on.
AdditionalHitsStaleTime(j, i, d) ==
  IF i >= d.num_additional_hits THEN j
  ELSE LET hit_time == AddSeconds(j.last_hit_time, d.time_deltas[i + 1])
       IN  AdditionalHitsStaleTime(
             [hits |-> Append(j.hits,
                              PageHit(i + 2, hit_time, d.page_paths[i + 1])),
              last_hit_time |-> j.last_hit_time],
             i + 1, d)

RECURSIVE AdditionalHits(_, _, _)
\* for i in range(num_additional_hits), from iteration i on.
AdditionalHits(j, i, d) ==
  IF i >= d.num_additional_hits THEN j
  ELSE LET hit_time == AddSeconds(j.last_hit_time, d.time_deltas[i + 1])
       IN  AdditionalHits(
             [hits |-> Append(j.hits,
                              PageHit(i + 2, hit_time, d.page_paths[i + 1])),
              last_hit_time |-> hit_time],
             i + 1, d)

\* The conversion event numbered len(hits), not len(hits) + 1.
MaybeConversionOffByOne(j, d) ==
  IF d.conversion_roll < 20
    THEN LET hit_time == AddSeconds(j.last_hit_time, d.conversion_delta)
         IN  [hits |-> Append(j.hits, EventHit(Len(j.hits), hit_time)),
              last_hit_time |-> hit_time]
    ELSE j

\* The conversion event with last_hit_time left at the last PAGE hit.
MaybeConversionStaleTime(j, d) ==
  IF d.conversion_roll < 20
    THEN LET hit_time == AddSeconds(j.last_hit_time, d.conversion_delta)
         IN  [hits |-> Append(j.hits, EventHit(Len(j.hits) + 1, hit_time)),
              last_hit_time |-> j.last_hit_time]
    ELSE j

\* The conversion event, if the roll says so.
MaybeConversion(j, d) ==
  IF d.conversion_roll < 20
    THEN LET hit_time == AddSeconds(j.last_hit_time, d.conversion_delta)
         IN  [hits |-> Append(j.hits, EventHit(Len(j.hits) + 1, hit_time)),
              last_hit_time |-> hit_time]
    ELSE j

IsBounce(d) == d.is_bounce_roll < 65

\* The journey with the conversion block ahead of the additional hits.
JourneyConversionFirst(session_start_time, d) ==
  LET first == [hits |-> <<PageHit(1, session_start_time, d.page_path)>>,
                last_hit_time |-> session_start_time]
  IN  IF ~IsBounce(d)
        THEN LET j == AdditionalHits(MaybeConversion(first, d), 0, d)
             IN  [hits |-> j.hits,
                  time_on_site |->
                    TotalSeconds(session_start_time, j.last_hit_time)]
        ELSE [hits |-> first.hits, time_on_site |-> d.bounce_time]

\* The user journey of a session: its hits and its time on site.
Journey(session_start_time, d) ==
  LET first == [hits |-> <<PageHit(1, session_start_time, d.page_path)>>,
                last_hit_time |-> session_start_time]
  IN  IF ~IsBounce(d)
        THEN LET j == MaybeConversion(AdditionalHits(first, 0, d), d)
             IN  [hits |-> j.hits,
                  time_on_site |->
                    TotalSeconds(session_start_time, j.last_hit_time)]
        ELSE [hits |-> first.hits, time_on_site |-> d.bounce_time]

\* The pageviews counting every hit.
PageviewsAllHits(hits) == Len(hits)

Pageviews(hits) ==
  Cardinality({k \in 1..Len(hits) : hits[k].type = "PAGE"})

\* The totals with the bounce flag the wrong way round.
TotalsFlagInverted(hits, time_on_site, is_bounce) ==
  [pageviews |-> Pageviews(hits),
   time_on_site_seconds |-> time_on_site,
   bounces |-> IF is_bounce THEN 0 ELSE 1]

Totals(hits, time_on_site, is_bounce) ==
  [pageviews |-> Pageviews(hits),
   time_on_site_seconds |-> time_on_site,
   bounces |-> IF is_bounce THEN 1 ELSE 0]

\* The row of one session, from its draws d.
SessionRow(current_date, d) ==
  LET session_start_time == AddSeconds(<<current_date, 0>>, d.secs)
      j == Journey(session_start_time, d)
  IN  [table |-> "ga",
       partition_date |-> StrfDate(current_date),
       session_id |-> d.session_id,
       user_id |-> d.user_id,
       session_start_time |-> IsoFormat(session_start_time),
       device_category |-> d.device_category,
       browser |-> d.browser,
       operating_system |-> d.operating_system,
       geo |-> [country |-> PRIMARY_COUNTRY_NAME,
                region |-> PRIMARY_REGION,
                city |-> d.city],
       traffic_source |-> TrafficSource(d.traffic_source_roll, d.referrer),
       totals |-> Totals(j.hits, j.time_on_site, IsBounce(d)),
       hits |-> j.hits]

\* The values explored for each draw of a session.  uuid.uuid4() reads
\* the entropy of the operating system; fake.uuid4() reads the generator
\* of the Faker instance.
WideSamples ==
  [secs |-> RandEnds(0, 86399),
   user_id |-> {"faker-uuid-1"},
   session_id |-> {"os-uuid-1"},
   traffic_source_roll |-> {0, 60, 85},
   referrer |-> {REFERRERS[2]},
   page_path |-> {PagePaths[1]},
   next_page_path |-> {PagePaths[Len(PagePaths)]},
   is_bounce_roll |-> {64, 65},
   num_additional_hits |-> 1..4,
   time_delta |-> RandEnds(30, 120),
   conversion_roll |-> {19, 20},
   conversion_delta |-> RandEnds(10, 30),
   bounce_time |-> RandEnds(5, 45),
   device_category |-> {DEVICE_CATEGORIES[1]},
   browser |-> {BROWSERS[1]},
   operating_system |-> {OPERATING_SYSTEMS[1]},
   city |-> {CITIES[1]}]

NarrowSamples ==
  [secs |-> {86399},
   user_id |-> {"faker-uuid-2"},
   session_id |-> {"os-uuid-1", "os-uuid-2"},
   traffic_source_roll |-> {95},
   referrer |-> {REFERRERS[1]},
   page_path |-> {PagePaths[2]},
   next_page_path |-> {PagePaths[3]},
   is_bounce_roll |-> {0, 99},
   num_additional_hits |-> {4},
   time_delta |-> {120},
   conversion_roll |-> {0, 99},
   conversion_delta |-> {30},
   bounce_time |-> {45},
   device_category |-> {DEVICE_CATEGORIES[3]},
   browser |-> {BROWSERS[4]},
   operating_system |-> {OPERATING_SYSTEMS[2]},
   city |-> {CITIES[3]}]

\* The draws every session makes.
BaseDraws(S) ==
  [secs : S.secs, user_id : S.user_id, session_id : S.session_id,
   page_path : S.page_path, device_category : S.device_category,
   browser : S.browser, operating_system : S.operating_system,
   city : S.city]

\* The roll of the traffic source, and the referrer a referral draws.
TrafficDraws(S) ==
  {[traffic_source_roll |-> r, referrer |-> f] :
     r \in {x \in S.traffic_source_roll : x >= 80 /\ x < 90},
     f \in S.referrer}
  \cup
  {[traffic_source_roll |-> r, referrer |-> ""] :
     r \in {x \in S.traffic_source_roll : x < 80 \/ x >= 90}}

\* The draws of the journey: a bounce draws its time on site; any other
\* session draws the number of its additional hits, a delay and a page for
\* each, the conversion roll and, on a conversion, one more delay.
JourneyDraws(S) ==
  {[is_bounce_roll |-> b, bounce_time |-> t, num_additional_hits |-> 0,
    time_deltas |-> << >>, page_paths |-> << >>,
    conversion_roll |-> 99, conversion_delta |-> 0] :
     b \in {x \in S.is_bounce_roll : x < 65}, t \in S.bounce_time}
  \cup
  UNION {
    {[is_bounce_roll |-> b, bounce_time |-> 0, num_additional_hits |-> n,
      time_deltas |-> ds, page_paths |-> ps,
      conversion_roll |-> c[1], conversion_delta |-> c[2]] :
       b \in {x \in S.is_bounce_roll : x >= 65},
       ds \in [1..n -> S.time_delta],
       ps \in [1..n -> S.next_page_path],
       c \in ({x \in S.conversion_roll : x < 20} \X S.conversion_delta)
             \cup ({x \in S.conversion_roll : x >= 20} \X {0})} :
    n \in S.num_additional_hits}

SessionDraws(S) ==
  {b @@ t @@ j : b \in BaseDraws(S), t \in TrafficDraws(S),
                 j \in JourneyDraws(S)}

\* num_sessions_today = random.randint(200, 1000)
GADay ==
  /\ pc = "ga_day"
  /\ UNCHANGED <<appVars, agentVars>>
  /\ num_sessions_today' \in RandEnds(200, 1000)
  /\ si' = 0
  /\ pc' = "ga_sess"
  /\ row' = NoRow
  /\ twin' = NoRow
  /\ UNCHANGED <<day, qi, di, vi, gsc_keys, yt_keys, ga_count, files,
                 write_log>>

\* One session: the body of the inner loop, and the step of the two loops.
\* The second run draws its own session_id.
GASession(S, tw) ==
  /\ pc = "ga_sess"
  /\ UNCHANGED <<appVars, agentVars>>
  /\ si < num_sessions_today
  /\ \E d \in SessionDraws(S) :
       /\ row' = SessionRow(CurrentDate(day), d)
       /\ IF tw
            THEN \E session_id \in S.session_id :
                   twin' = SessionRow(CurrentDate(day),
                                      [d EXCEPT !.session_id = session_id])
            ELSE twin' = twin
  /\ ga_count' = ga_count + 1
  /\ IF si + 1 < num_sessions_today
       THEN /\ si' = si + 1
            /\ UNCHANGED <<pc, day>>
       ELSE IF day + 1 < NUM_DAYS
         THEN /\ pc' = "ga_day"
              /\ day' = day + 1
              /\ si' = si + 1
         ELSE /\ pc' = "ga_write"
              /\ si' = si + 1
              /\ UNCHANGED day
  /\ UNCHANGED <<qi, di, vi, num_sessions_today, gsc_keys, yt_keys, files,
                 write_log>>

\* ga_df.to_csv(...), the last statement but the prints.
WriteGA ==
  /\ pc = "ga_write"
  /\ UNCHANGED <<appVars, agentVars>>
  /\ ToCsv(GA_CSV, "done")
  /\ row' = NoRow
  /\ twin' = NoRow
  /\ UNCHANGED <<day, qi, di, vi, si, num_sessions_today,
                 gsc_keys, yt_keys, ga_count>>

\* ------------------------------------------------------- specifications

\* One run of the script.
Next ==
  \/ GSCRow(FALSE)
  \/ WriteGSC
  \/ YTRow(FALSE)
  \/ WriteYT
  \/ GADay
  \/ GASession(NarrowSamples, FALSE)
  \/ WriteGA

Spec == Init /\ [][Next]_vars

\* One run up to the first sessions of the GA pass, the draws of a session
\* explored widely.
FirstSession ==
  /\ ga_count < FirstSessions
  /\ GASession(WideSamples, FALSE)

SessionNext ==
  \/ GSCRow(FALSE)
  \/ WriteGSC
  \/ YTRow(FALSE)
  \/ WriteYT
  \/ GADay
  \/ FirstSession

SessionSpec == Init /\ [][SessionNext]_vars

\* Two runs of the script with the same seeds, step by step.
TwoRunNext ==
  \/ GSCRow(TRUE)
  \/ WriteGSC
  \/ YTRow(TRUE)
  \/ WriteYT
  \/ GADay
  \/ GASession(NarrowSamples, TRUE)
  \/ WriteGA

TwoRunSpec == Init /\ [][TwoRunNext]_vars

\* --------------------------------------------------- app.py: content API

FIELDS == {"title", "description", "page_h1", "page_paragraph"}

\* The texts a request carries for a field.
Texts == {"A", "B"}

\* The body of a request: none at all, the JSON null, a JSON object with
\* any of the four fields (and, in one payload, a key the handler does not
\* know), or a JSON array.
AbsentData == [kind |-> "absent"]

NoneData == [kind |-> "None"]

DictData(items) == [kind |-> "dict", items |-> items]

ListData(n) == [kind |-> "list", len |-> n]

Payloads ==
  {AbsentData, NoneData}
  \cup {DictData(items) :
          items \in UNION {[K -> Texts] : K \in SUBSET FIELDS}}
  \cup {DictData([k \in {"keywords"} |-> "A"])}
  \cup {ListData(0), ListData(1)}

\* The framework refused the request before the handler saw a payload.
UnsupportedMediaType == [kind |-> "raised"]

\* request.get_json(): the parsed body.  For a request without a JSON body
\* the installed Flask either returns None or aborts the request with 415.
GetJson(body) ==
  IF body.kind = "absent" THEN {NoneData, UnsupportedMediaType} ELSE {body}

\* not data, with only None taken for missing.
FalsyOnlyNone(data) == data.kind = "None"

\* not data
Falsy(data) ==
  \/ data.kind = "None"
  \/ data.kind = "dict" /\ DOMAIN data.items = {}
  \/ data.kind = "list" /\ data.len = 0

\* data.get(key, default)
Get(data, key, default) ==
  IF key \in DOMAIN data.items THEN data.items[key] ELSE default

\* The four assignments with page_h1 read from the key 'title'.
UpdatedMetadataMixedKeys(store, data) ==
  [title |-> Get(data, "title", store.title),
   description |-> Get(data, "description", store.description),
   page_h1 |-> Get(data, "title", store.page_h1),
   page_paragraph |-> Get(data, "page_paragraph", store.page_paragraph)]

\* The four assignments of update_metadata.
UpdatedMetadata(store, data) ==
  [title |-> Get(data, "title", store.title),
   description |-> Get(data, "description", store.description),
   page_h1 |-> Get(data, "page_h1", store.page_h1),
   page_paragraph |-> Get(data, "page_paragraph", store.page_paragraph)]

\* GET /: the page rendered from the four stored values.
Homepage ==
  /\ request' = [route |-> "/", data |-> NoneData]
  /\ response' = [code |-> 200,
                  title |-> WEBSITE_METADATA["title"],
                  description |-> WEBSITE_METADATA["description"],
                  page_h1 |-> WEBSITE_METADATA["page_h1"],
                  page_paragraph |-> WEBSITE_METADATA["page_paragraph"]]
  /\ UNCHANGED <<WEBSITE_METADATA, last_sent>>
  /\ UNCHANGED <<dbVars, agentVars>>

\* POST /update-metadata.  A payload that is no object and not falsy has no
\* get(): the first assignment raises before anything is stored and the
\* framework answers 500.
UpdateMetadata ==
  /\ \E body \in Payloads : \E data \in GetJson(body) :
       /\ request' = [route |-> "/update-metadata", data |-> body]
       /\ IF data = UnsupportedMediaType
            THEN /\ response' = [code |-> 415, status |-> "unhandled",
                                 message |-> "UnsupportedMediaType"]
                 /\ UNCHANGED <<WEBSITE_METADATA, last_sent>>
            ELSE IF Falsy(data)
            THEN /\ response' = [code |-> 400, status |-> "error",
                                 message |-> "Missing JSON payload"]
                 /\ UNCHANGED <<WEBSITE_METADATA, last_sent>>
            ELSE IF data.kind # "dict"
              THEN /\ response' = [code |-> 500, status |-> "unhandled",
                                   message |-> "AttributeError"]
                   /\ UNCHANGED <<WEBSITE_METADATA, last_sent>>
              ELSE /\ WEBSITE_METADATA' = UpdatedMetadata(WEBSITE_METADATA, data)
                   /\ response' = [code |-> 200, status |-> "success",
                                   message |-> "Website content updated."]
                   /\ last_sent' =
                        [f \in FIELDS |->
                           IF f \in DOMAIN data.items THEN data.items[f]
                           ELSE last_sent[f]]
  /\ UNCHANGED <<dbVars, agentVars>>

AppNext ==
  \/ Homepage
  \/ UpdateMetadata

AppSpec == Init /\ [][AppNext]_vars

\* ------------------------------------------------ agent.py: query tools

\* The SQL texts the agents pass to the tools.
Queries == {"ga_query", "gsc_query", "yt_query"}

\* What BigQuery does with a submitted query: result() gives rows, or
\* query()/result() raises.
BqOutcomes == {"rows", "fails"}

\* A Python list.
PyList(elems) == [kind |-> "list", elems |-> elems]

\* A value that is no list.
NotAList == [kind |-> "str"]

\* How a call ended: with a value returned to the caller, or with an
\* exception raised past it; sent holds the queries handed to
\* bq_client.query on the way, in order.
Returned(value, sent) == [raised |-> FALSE, value |-> value, sent |-> sent]

Raised(exc, sent) == [raised |-> TRUE, exc |-> exc, sent |-> sent]

\* execute_bq_query(query) with the module's bq_client.
ExecuteBqQuery(client, query, outcome) ==
  IF client = "None"
    THEN Raised("BigQuery client is not available.", <<>>)
    ELSE IF outcome = "fails"
      THEN Returned(DictData([error |-> "query failed"]), <<query>>)
      ELSE Returned(PyList(<<[query |-> query]>>), <<query>>)

\* The body of the try of execute_all_queries: the three calls one after
\* the other, ended by the first that raises.
ThreeCalls(client, queries, outcomes) ==
  LET ga == ExecuteBqQuery(client, queries[1], outcomes[1])
      gsc == ExecuteBqQuery(client, queries[2], outcomes[2])
      yt == ExecuteBqQuery(client, queries[3], outcomes[3])
  IN  IF ga.raised THEN Raised(ga.exc, ga.sent)
      ELSE IF gsc.raised THEN Raised(gsc.exc, ga.sent \o gsc.sent)
      ELSE IF yt.raised
        THEN Raised(yt.exc, ga.sent \o gsc.sent \o yt.sent)
      ELSE Returned(DictData([ga_results |-> ga.value,
                              gsc_results |-> gsc.value,
                              yt_results |-> yt.value]),
                    ga.sent \o gsc.sent \o yt.sent)

\* The test of the input of execute_all_queries.
BadInput(queries) ==
  \/ queries.kind # "list"
  \/ Len(queries.elems) # 3

\* execute_all_queries without its try/except.
ExecuteAllQueriesUncaught(client, queries, outcomes) ==
  IF BadInput(queries)
    THEN Returned(DictData([error |->
           "Tool error: Input must be a list of exactly three query strings."]),
           <<>>)
    ELSE ThreeCalls(client, queries.elems, outcomes)

\* execute_all_queries(queries)
ExecuteAllQueries(client, queries, outcomes) ==
  IF BadInput(queries)
    THEN Returned(DictData([error |->
           "Tool error: Input must be a list of exactly three query strings."]),
           <<>>)
    ELSE LET body == ThreeCalls(client, queries.elems, outcomes)
         IN  IF body.raised
               THEN Returned(DictData([error |->
                      "Tool failed during query execution: " \o body.exc]),
                      body.sent)
               ELSE body

\* The inputs the tool is called with: no list, and lists of two to four
\* queries.
QueryLists ==
  {NotAList}
  \cup {PyList(elems) : elems \in [1..3 -> Queries]}
  \cup {PyList(<<>>), PyList(<<"ga_query", "gsc_query">>),
        PyList(<<"ga_query", "gsc_query", "yt_query", "yt_query">>)}

\* Loading the module: bigquery.Client(...) succeeds or raises.
ImportAgent ==
  /\ bq_client = "unset"
  /\ bq_client' \in {"client", "None"}
  /\ UNCHANGED <<call, result>>
  /\ UNCHANGED <<dbVars, appVars>>

\* An agent calls the tool execute_bq_query.
CallExecuteBqQuery ==
  /\ bq_client # "unset"
  /\ \E query \in Queries, outcome \in BqOutcomes :
       /\ call' = [fn |-> "execute_bq_query", query |-> query]
       /\ result' = ExecuteBqQuery(bq_client, query, outcome)
  /\ UNCHANGED bq_client
  /\ UNCHANGED <<dbVars, appVars>>

\* An agent calls the tool execute_all_queries.
CallExecuteAllQueries ==
  /\ bq_client # "unset"
  /\ \E queries \in QueryLists, outcomes \in [1..3 -> BqOutcomes] :
       /\ call' = [fn |-> "execute_all_queries", queries |-> queries]
       /\ result' = ExecuteAllQueries(bq_client, queries, outcomes)
  /\ UNCHANGED bq_client
  /\ UNCHANGED <<dbVars, appVars>>

AgentNext ==
  \/ ImportAgent
  \/ CallExecuteBqQuery
  \/ CallExecuteAllQueries

AgentSpec == Init /\ [][AgentNext]_vars

\* ----------------------------------------------------------- properties

IsGaRow == row.table = "ga"
IsGscRow == row.table = "gsc"
IsYtRow == row.table = "yt"

RECURSIVE CountType(_, _)
\* The number of hits of a type in a hit sequence.
CountType(hits, type) ==
  IF hits = << >> THEN 0
  ELSE (IF Head(hits).type = type THEN 1 ELSE 0) + CountType(Tail(hits), type)

\* a <= b for two isoformat texts of the same layout, field by field.
IsoLeq(a, b) ==
  \E k \in 1..(Len(a) + 1) :
    /\ \A i \in 1..(k - 1) : a[i] = b[i]
    /\ k = Len(a) + 1 \/ a[k] < b[k]

\* C1: totals.pageviews of every GA session row is the number of PAGE hits
\* of its hit sequence; EVENT hits are not counted.
C1_PageviewsCountPageHits ==
  IsGaRow => row.totals.pageviews = CountType(row.hits, "PAGE")

\* A session that converted: five PAGE hits and one EVENT hit.
C1_Witness ==
  /\ IsGaRow
  /\ row.totals.bounces = 0
  /\ CountType(row.hits, "EVENT") = 1
  /\ row.totals.pageviews = 5

\* C2: totals.bounces is 1 exactly when the session has one hit.
C2_BounceIffSingleHit ==
  IsGaRow => (row.totals.bounces = 1 <=> Len(row.hits) = 1)

\* A session that is no bounce with the fewest hits it can have.
C2_Witness ==
  /\ IsGaRow
  /\ row.totals.bounces = 0
  /\ Len(row.hits) = 2

\* C3: the hit_number values of a session, in order, are 1, 2, ...,
\* len(hits).
C3_HitNumbersSequential ==
  IsGaRow => \A k \in 1..Len(row.hits) : row.hits[k].hit_number = k

\* A session of four additional PAGE hits and the trailing EVENT hit.
C3_Witness ==
  /\ IsGaRow
  /\ Len(row.hits) = 6
  /\ row.hits[6].type = "EVENT"
  /\ row.hits[6].hit_number = 6

\* C4: every session has a hit; the first is a PAGE hit at the session start
\* time, and hit_time never decreases along the hits.
C4_FirstHitAndMonotoneTime ==
  IsGaRow =>
    /\ Len(row.hits) >= 1
    /\ row.hits[1].type = "PAGE"
    /\ row.hits[1].hit_time = row.session_start_time
    /\ \A k \in 1..(Len(row.hits) - 1) :
         IsoLeq(row.hits[k].hit_time, row.hits[k + 1].hit_time)

\* A session that starts in the last second of a day and goes on into the
\* next, its delays unequal.
C4_Witness ==
  /\ IsGaRow
  /\ Len(row.hits) >= 3
  /\ row.hits[1].hit_time[4] = 23
  /\ row.hits[2].hit_time = <<2025, 1, 2, 0, 1, 59>>
  /\ row.hits[3].hit_time = <<2025, 1, 2, 0, 2, 29>>

\* C5: a PAGE hit has a page record and no event_info, an EVENT hit has an
\* event_info and no page record, and a hit is one or the other.
C5_OnePayloadPerHit ==
  IsGaRow =>
    \A k \in 1..Len(row.hits) :
      LET h == row.hits[k]
      IN  \/ h.type = "PAGE" /\ h.page # None /\ h.event_info = None
          \/ h.type = "EVENT" /\ h.event_info # None /\ h.page = None

\* A session with hits of both types.
C5_Witness ==
  /\ IsGaRow
  /\ \E k \in 1..Len(row.hits) : row.hits[k].type = "EVENT"
  /\ \E k \in 2..Len(row.hits) : row.hits[k].type = "PAGE"

\* C6: 0 <= clicks <= impressions in every GSC row.
C6_ClicksWithinImpressions ==
  IsGscRow => 0 <= row.clicks /\ row.clicks <= row.impressions

\* C7: watch_time_msec <= potential_watch_time_msec in every YouTube row.
C7_WatchTimeWithinPotential ==
  IsYtRow => row.watch_time_msec <= row.potential_watch_time_msec

\* A row of the most views a row can have.
C7_Witness ==
  /\ IsYtRow
  /\ row.views = 1500
  /\ row.watch_time_msec > 0
  /\ row.watch_time_msec < row.potential_watch_time_msec

\* C8: impressions is in [500, 10000] for a query containing "best" and in
\* [50, 8000] for any other, hence in [50, 10000].
C8_ImpressionsRange ==
  IsGscRow =>
    /\ Contains(BEST, row.query) => row.impressions \in 500..10000
    /\ ~Contains(BEST, row.query) => row.impressions \in 50..8000
    /\ row.impressions \in 50..10000

\* Rows at the largest impressions of a "best" query.
C8_Witness ==
  /\ IsGscRow
  /\ row.query = GSC_QUERIES[7].query
  /\ row.impressions = 10000

\* The (day, query, device) triples and (day, video) pairs of a run.
AllGscKeys ==
  {<<StrfDate(AddDays(START_DATE, d)), GSC_QUERIES[q].query, dev>> :
     d \in 0..(NUM_DAYS - 1), q \in 1..Len(GSC_QUERIES),
     dev \in {"MOBILE", "DESKTOP"}}

AllYtKeys ==
  {<<StrfDate(AddDays(START_DATE, d)), YT_VIDEOS[v].video_id>> :
     d \in 0..(NUM_DAYS - 1), v \in 1..Len(YT_VIDEOS)}

Elements(seq) == {seq[k] : k \in 1..Len(seq)}

\* No key appended twice.
NoRepeat(seq) == Cardinality(Elements(seq)) = Len(seq)

\* C9: once the GSC pass has ended gsc_data holds one row for each triple of
\* days x query catalog x {MOBILE, DESKTOP}; once the YouTube pass has ended
\* yt_data holds one row for each pair of days x video catalog; once the GA
\* pass has ended ga_sessions_data holds between NUM_DAYS x 200 and
\* NUM_DAYS x 1000 rows.  No key is ever repeated.
C9_RowCounts ==
  /\ NoRepeat(gsc_keys) /\ NoRepeat(yt_keys)
  /\ pc \in {"gsc_write", "yt", "yt_write", "ga_day", "ga_sess", "ga_write",
             "done"} =>
       /\ Len(gsc_keys) = NUM_DAYS * Len(GSC_QUERIES) * 2
       /\ Elements(gsc_keys) = AllGscKeys
  /\ pc \in {"yt_write", "ga_day", "ga_sess", "ga_write", "done"} =>
       /\ Len(yt_keys) = NUM_DAYS * Len(YT_VIDEOS)
       /\ Elements(yt_keys) = AllYtKeys
  /\ pc \in {"ga_write", "done"} =>
       /\ ga_count >= NUM_DAYS * 200
       /\ ga_count <= NUM_DAYS * 1000

\* A whole run whose days all drew the fewest sessions.
C9_Witness ==
  /\ pc = "done"
  /\ ga_count = NUM_DAYS * 200
  /\ Len(gsc_keys) = NUM_DAYS * 18
  /\ Len(yt_keys) = NUM_DAYS * 3

\* C10: two runs given the same seeds append the same row at every step,
\* session_id and user_id included.
C10_SameSeedSameRows == twin = row

\* C13: when a to_csv call has failed, no output file is left published.
C13_NothingPublishedOnFailure ==
  pc = "failed" => \A f \in CsvFiles : files[f] # "complete"

\* The seconds from START_DATE to the time an isoformat text names.
IsoSeconds(iso) ==
  DaysFrom(START_DATE, <<iso[1], iso[2], iso[3]>>) * 86400
    + iso[4] * 3600 + iso[5] * 60 + iso[6]

\* C14: time_on_site_seconds of a bounce is in [5, 45]; of any other session
\* it is the seconds from the session start time to the hit_time of the last
\* hit.
C14_TimeOnSite ==
  IsGaRow =>
    IF row.totals.bounces = 1
      THEN row.totals.time_on_site_seconds \in 5..45
      ELSE row.totals.time_on_site_seconds =
             IsoSeconds(row.hits[Len(row.hits)].hit_time)
               - IsoSeconds(row.session_start_time)

\* A session begun in the last second of a day: two additional PAGE hits
\* after 120 s and 30 s and the conversion 10 s later.
C14_Witness ==
  /\ IsGaRow
  /\ row.totals.bounces = 0
  /\ Len(row.hits) = 4
  /\ row.hits[4].type = "EVENT"
  /\ row.session_start_time = <<2025, 1, 1, 23, 59, 59>>
  /\ row.totals.time_on_site_seconds = 160

\* C16: a session has at most one EVENT hit, which is the last hit of a
\* session that is no bounce and follows 1 to 4 additional PAGE hits; a
\* session that is no bounce has 2 to 6 hits and a bounce has one.
C16_EventOnlyLast ==
  IsGaRow =>
    /\ CountType(row.hits, "EVENT") <= 1
    /\ \A k \in 1..Len(row.hits) :
         row.hits[k].type = "EVENT" =>
           /\ k = Len(row.hits)
           /\ row.totals.bounces = 0
           /\ k - 2 \in 1..4
    /\ row.totals.bounces = 0 =>
         /\ Len(row.hits) \in 2..6
         /\ CountType(row.hits, "PAGE") - 1 \in 1..4
    /\ row.totals.bounces = 1 => Len(row.hits) = 1

\* The shortest session that converted: one additional PAGE hit, then the
\* EVENT hit.
C16_Witness ==
  /\ IsGaRow
  /\ Len(row.hits) = 3
  /\ row.hits[2].type = "PAGE"
  /\ row.hits[3].type = "EVENT"

\* C19: likes_added, shares, comments_added and subscribers_gained of every
\* YouTube row are non-negative.
C19_EngagementNonNegative ==
  IsYtRow =>
    /\ row.likes_added >= 0
    /\ row.shares >= 0
    /\ row.comments_added >= 0
    /\ row.subscribers_gained >= 0

\* s is an initial part of t.
IsPrefix(s, t) == Len(s) <= Len(t) /\ \A k \in 1..Len(s) : s[k] = t[k]

\* C17: to_csv is called for GSC, then YouTube, then GA, once each; a table
\* is written only when its pass has appended all its rows, a run that ends
\* has written all three, and no row is appended to a table once it has been
\* written.
C17_WrittenOnceAfterAllRows ==
  /\ [](IsPrefix(write_log, <<GSC_CSV, YT_CSV, GA_CSV>>))
  /\ [](Len(write_log) >= 1 =>
          /\ pc \notin {"gsc", "gsc_write"}
          /\ Len(gsc_keys) = NUM_DAYS * Len(GSC_QUERIES) * Len(GSC_DEVICES))
  /\ [](Len(write_log) >= 2 =>
          /\ pc \notin {"yt", "yt_write"}
          /\ Len(yt_keys) = NUM_DAYS * Len(YT_VIDEOS))
  /\ [](Len(write_log) >= 3 =>
          /\ pc \in {"done", "failed"}
          /\ ga_count >= NUM_DAYS * 200)
  /\ [](pc = "done" => write_log = <<GSC_CSV, YT_CSV, GA_CSV>>)
  /\ [][/\ Len(write_log) >= 1 => gsc_keys' = gsc_keys
        /\ Len(write_log) >= 2 => yt_keys' = yt_keys
        /\ Len(write_log) >= 3 => ga_count' = ga_count]_vars

\* A run that ended, its three tables written.
C17_Witness ==
  /\ pc = "done"
  /\ Len(write_log) = 3
  /\ \A f \in CsvFiles : files[f] = "complete"

\* The request handled last was an update the handler accepted.
Accepted ==
  /\ request.route = "/update-metadata"
  /\ response.code = 200

\* C11: each stored field is the value of the last accepted request that
\* carried it, or its default if none did; an accepted request leaves the
\* fields it omits as they were.
C11_LastWriteWins ==
  /\ [](\A f \in FIELDS : WEBSITE_METADATA[f] = last_sent[f])
  /\ [][Accepted' =>
          \A f \in FIELDS \ DOMAIN request'.data.items :
            WEBSITE_METADATA'[f] = WEBSITE_METADATA[f]]_vars

\* A request that carried the title alone, after others had set the rest.
C11_Witness ==
  /\ Accepted
  /\ DOMAIN request.data.items = {"title"}
  /\ WEBSITE_METADATA.title = "B"
  /\ WEBSITE_METADATA.description = "A"
  /\ WEBSITE_METADATA.page_h1 = "B"
  /\ WEBSITE_METADATA.page_paragraph = DEFAULT_METADATA.page_paragraph

\* The request handled last was an update with no payload or an empty one.
EmptyUpdate ==
  /\ request.route = "/update-metadata"
  /\ \/ request.data.kind \in {"absent", "None"}
     \/ request.data.kind = "dict" /\ DOMAIN request.data.items = {}

\* An HTTP status of the client-error or server-error class.
IsErrorStatus(code) == code >= 400

\* C18: an update whose payload is missing or an empty object is answered
\* with an error status and stores nothing; the store always has the four
\* keys and no other.
C18_EmptyPayloadRejected ==
  /\ [](EmptyUpdate => IsErrorStatus(response.code))
  /\ [][EmptyUpdate' => WEBSITE_METADATA' = WEBSITE_METADATA]_vars
  /\ [](DOMAIN WEBSITE_METADATA = FIELDS)

\* An empty object refused while the store holds what earlier requests set.
C18_Witness ==
  /\ EmptyUpdate
  /\ request.data.kind = "dict"
  /\ response.code = 400
  /\ WEBSITE_METADATA.title = "A"
  /\ WEBSITE_METADATA.page_paragraph = "B"

\* C12: no call of execute_bq_query raises; each returns a list of rows or
\* a value {error: message}.
C12_QueryBoundaryNeverRaises ==
  call.fn = "execute_bq_query" =>
    /\ ~result.raised
    /\ \/ result.value.kind = "list"
       \/ /\ result.value.kind = "dict"
          /\ DOMAIN result.value.items = {"error"}

\* A value {error: message}.
IsError(value) ==
  /\ value.kind = "dict"
  /\ DOMAIN value.items = {"error"}

\* C15: no call of execute_all_queries raises; an input that is no list of
\* three queries gives one {error: ...} and no query is executed; otherwise
\* the queries are executed in the order GA, GSC, YouTube and the result has
\* exactly the keys ga_results, gsc_results, yt_results, or it is one
\* {error: ...} because a call raised.
C15_AllQueriesNeverRaises ==
  call.fn = "execute_all_queries" =>
    /\ ~result.raised
    /\ BadInput(call.queries) =>
         /\ IsError(result.value)
         /\ result.sent = <<>>
    /\ ~BadInput(call.queries) =>
         \/ /\ result.value.kind = "dict"
            /\ DOMAIN result.value.items =
                 {"ga_results", "gsc_results", "yt_results"}
            /\ result.sent = call.queries.elems
         \/ /\ IsError(result.value)
            /\ IsPrefix(result.sent, call.queries.elems)

\* Without a client the first call raised and the tool returned one error.
C15_Witness ==
  /\ call.fn = "execute_all_queries"
  /\ ~BadInput(call.queries)
  /\ bq_client = "None"
  /\ ~result.raised
  /\ IsError(result.value)
  /\ result.sent = <<>>

====
